---- MODULE Spec2Model ----
(***************************************************************************)
(* Model of the ScholarAI frontend: the chat page controller               *)
(* (ChatPageContent: sendMessage, startNewChat, the session_id URL effect  *)
(* and the UI elements that invoke them), the dashboard page               *)
(* (ResearchPage: fetchDashboardData, deleteSession) and the HTTP client   *)
(* wrapper (lib/api.ts).                                                   *)
(*                                                                         *)
(* Strings are sequences of one-character strings, so that trim() is a     *)
(* computation.  React state updates made by one handler segment become    *)
(* visible together at the next render; a step of the model is one such    *)
(* segment followed by the effects the render triggers.                    *)
(***************************************************************************)
EXTENDS Integers, Sequences, FiniteSets, Bags, TLC

VARIABLES messages, inputMessage, isLoading, sessionId, urlSessionId,
          inflight, log, lastEvent

\* the value Date.now() returns, and the id fields of the messages:
\* ids[n] is the id of messages[n]
VARIABLES now, ids

\* the dashboard page (ResearchPage)
VARIABLES isLoaded, stats, recentSessions, insights, loading, error,
          loads, deletes, dashEvent

\* the backend, as far as the page can tell: the ids of the sessions whose
\* delete request it has answered with a 2xx response
VARIABLES served

\* the HTTP client wrapper and the requests the frontend issues
VARIABLES NEXT_PUBLIC_API_URL, apiEvent

apiVars == <<NEXT_PUBLIC_API_URL, apiEvent>>

\* the chat page
chatVars == <<messages, inputMessage, isLoading, sessionId, urlSessionId,
              inflight, log, lastEvent, now, ids>>

dashVars == <<isLoaded, stats, recentSessions, insights, loading, error,
              loads, deletes, dashEvent, served>>

vars == <<messages, inputMessage, isLoading, sessionId, urlSessionId,
          inflight, log, lastEvent, isLoaded, stats, recentSessions,
          insights, loading, error, loads, deletes, dashEvent,
          NEXT_PUBLIC_API_URL, apiEvent, now, ids, served>>

----------------------------------------------------------------------------
(* Bounds *)

MaxLen == 2

MaxMsgs == 4

\* the milliseconds the clock may advance
MaxClock == 1

----------------------------------------------------------------------------
(* Values *)

\* the JavaScript value undefined, distinct from every string and every list
Undefined == <<"undefined">>

\* the JavaScript value null held by sessionId; absent session_id in a body
NoId == "null"

Chars == {" ", "a"}

Whitespace == {" "}

Texts == UNION {[1..n -> Chars] : n \in 0..MaxLen}

\* the three suggestion cards, each abbreviated to its first letter
suggestions == {<<"E">>, <<"S">>, <<"C">>}

\* session ids the backend may issue
ServerIds == {"s1", "s2"}

\* values of the session_id URL parameter (NoId: parameter absent)
UrlIds == {NoId, "u"}

\* texts of data.message the backend may return
ServerMsgs == {<<"h", "i">>}

\* the fixed apology text of the catch branch, abbreviated
Apology == <<"s", "o", "r", "r", "y">>

Statuses == {200, 500}

Unparseable == [kind |-> "unparseable"]

JsonNull == [kind |-> "null"]

JsonObjects == [kind : {"object"},
                message : ServerMsgs \cup {Undefined},
                sources : {Undefined, <<"src">>},
                session_id : ServerIds \cup {NoId}]

Bodies == {Unparseable, JsonNull} \cup JsonObjects

----------------------------------------------------------------------------
(* Pure helpers *)

\* JavaScript truthiness of a string-or-undefined value
Falsy(x) == x = Undefined \/ x = <<>>

\* JavaScript truthiness of a session id (null, undefined and "" are falsy)
HasId(id) == id # NoId

RECURSIVE TrimStart(_)
TrimStart(s) == IF s = <<>> THEN <<>>
                ELSE IF Head(s) \in Whitespace THEN TrimStart(Tail(s))
                ELSE s

RECURSIVE TrimEnd(_)
TrimEnd(s) == IF s = <<>> THEN <<>>
              ELSE IF s[Len(s)] \in Whitespace
                   THEN TrimEnd(SubSeq(s, 1, Len(s) - 1))
                   ELSE s

\* String.prototype.trim
Trim(s) == TrimEnd(TrimStart(s))

RemoveAt(s, i) == SubSeq(s, 1, i - 1) \o SubSeq(s, i + 1, Len(s))

----------------------------------------------------------------------------
(* Messages *)

\* a user Message that carries the trimmed text
userMessageTrimmed(textToSend) ==
    [role |-> "user", content |-> Trim(textToSend), sources |-> Undefined]

\* the user Message built at the call (id and timestamp not modelled)
userMessage(textToSend) ==
    [role |-> "user", content |-> textToSend, sources |-> Undefined]

\* the assistant Message built from the parsed response body
assistantMessage(data) ==
    [role |-> "assistant", content |-> data.message,
     sources |-> IF data.sources = Undefined THEN <<>> ELSE data.sources]

\* the fixed Message of the catch branch; it has no sources field
fallbackMessage ==
    [role |-> "assistant", content |-> Apology, sources |-> Undefined]

\* id: Date.now().toString(), of the user Message
userMessageId == ToString(now)

\* id: (Date.now() + 1).toString(), of the Message built from the response
assistantMessageId == ToString(now + 1)

\* id: Date.now().toString(), of the Message of the catch branch
fallbackMessageId == ToString(now)

----------------------------------------------------------------------------
(* React state of the component, as a record st, and its setters.  Each     *)
(* setter records itself in st.log, the order in which the current         *)
(* sendMessage call has performed its effects.                             *)

State == [messages |-> messages, inputMessage |-> inputMessage,
          isLoading |-> isLoading, sessionId |-> sessionId,
          inflight |-> inflight, log |-> log, ids |-> ids]

\* the id field of the message just appended
Identified(st, id) == [st EXCEPT !.ids = Append(@, id)]

\* an update that puts the new message in front of the sequence
setMessagesPrepend(st, m) ==
    [st EXCEPT !.messages = <<m>> \o @,
               !.log = Append(@, IF m.role = "user" THEN "appendUser"
                                 ELSE "appendAssistant")]

\* setMessages((prev) => [...prev, m])
setMessagesAppend(st, m) ==
    [st EXCEPT !.messages = Append(@, m),
               !.log = Append(@, IF m.role = "user" THEN "appendUser"
                                 ELSE "appendAssistant")]

setInputMessage(st, t) ==
    [st EXCEPT !.inputMessage = t, !.log = Append(@, "clearInput")]

setIsLoading(st, b) ==
    [st EXCEPT !.isLoading = b,
               !.log = Append(@, IF b THEN "loadingTrue" ELSE "loadingFalse")]

setSessionId(st, id) == [st EXCEPT !.sessionId = id]

\* the POST to /api/chat/send/; the request stays outstanding until it settles
\* (base: the message sequence at the call, kept for stating the claims)
fetch(st, textToSend, sid, base) ==
    [st EXCEPT !.inflight = Append(@, [message |-> textToSend,
                                       session_id |-> sid,
                                       base |-> base]),
               !.log = Append(@, "fetch")]

\* useEffect on [searchParams, sessionId]: adopts the URL's session_id
\* whenever the rendered sessionId is unset
urlEffect(st) ==
    IF HasId(urlSessionId) /\ ~HasId(st.sessionId)
    THEN [st EXCEPT !.sessionId = urlSessionId]
    ELSE st

\* commit of a handler segment: render, then the effects of that render
Commit(st) ==
    LET r == urlEffect(st) IN
    /\ messages' = r.messages
    /\ inputMessage' = r.inputMessage
    /\ isLoading' = r.isLoading
    /\ sessionId' = r.sessionId
    /\ inflight' = r.inflight
    /\ log' = r.log
    /\ ids' = r.ids

----------------------------------------------------------------------------
(* sendMessage *)

\* const textToSend = messageText || inputMessage
TextToSend(messageText) ==
    IF Falsy(messageText) THEN inputMessage ELSE messageText

\* the guard without its in-flight test
RejectedIgnoringLoading(textToSend) == Trim(textToSend) = <<>>

\* the guard testing the text without trimming it
RejectedWithoutTrim(textToSend) == textToSend = <<>> \/ isLoading

\* if (!textToSend.trim() || isLoading) return
Rejected(textToSend) == Trim(textToSend) = <<>> \/ isLoading

\* the call segment raising the in-flight flag only after issuing the request
CallSegmentLoadingLast(st, textToSend) ==
    LET s0 == [st EXCEPT !.log = <<>>]
        s1 == Identified(setMessagesAppend(s0, userMessage(textToSend)),
                         userMessageId)
        s2 == setInputMessage(s1, <<>>)
        s3 == fetch(s2, textToSend, st.sessionId, st.messages)
    IN  setIsLoading(s3, TRUE)

\* the call segment posting the message without the held session id
CallSegmentWithoutId(st, textToSend) ==
    LET s0 == [st EXCEPT !.log = <<>>]
        s1 == Identified(setMessagesAppend(s0, userMessage(textToSend)),
                         userMessageId)
        s2 == setInputMessage(s1, <<>>)
        s3 == setIsLoading(s2, TRUE)
    IN  fetch(s3, textToSend, NoId, st.messages)

\* the synchronous part of an accepted call, up to the await of fetch
CallSegment(st, textToSend) ==
    LET s0 == [st EXCEPT !.log = <<>>]
        s1 == Identified(setMessagesAppend(s0, userMessage(textToSend)),
                         userMessageId)
        s2 == setInputMessage(s1, <<>>)
        s3 == setIsLoading(s2, TRUE)
    IN  fetch(s3, textToSend, st.sessionId, st.messages)

sendMessage(messageText) ==
    LET textToSend == TextToSend(messageText) IN
    /\ IF Rejected(textToSend)
       THEN UNCHANGED <<messages, inputMessage, isLoading, sessionId,
                        inflight, log, ids>>
       ELSE Commit(CallSegment(State, textToSend))
    /\ lastEvent' = [op |-> "sendMessage", messageText |-> messageText,
                     textToSend |-> textToSend]
    /\ UNCHANGED <<urlSessionId, now>>
    /\ UNCHANGED <<dashVars, apiVars>>

\* what settles a fetch: a network error (fetch rejects), or a response
NetworkError == [kind |-> "networkError"]

Responses == [kind : {"response"}, status : Statuses, body : Bodies]

Outcomes == {NetworkError} \cup Responses

\* adoption without the test of the held id
AdoptsAlways(data, req) == HasId(data.session_id)

\* if (data.session_id && !sessionId): sessionId is the value the call saw
Adopts(data, req) == HasId(data.session_id) /\ ~HasId(req.session_id)

\* the body of try once fetch settled.  It throws when fetch rejected, when
\* response.json() rejects, or when data.message is read from null; the
\* status of the response is not looked at.
TryBody(st, req, outcome) ==
    IF outcome.kind = "networkError" \/ outcome.body.kind # "object"
    THEN [threw |-> TRUE, st |-> st]
    ELSE LET data == outcome.body
             s1 == Identified(setMessagesAppend(st, assistantMessage(data)),
                              assistantMessageId)
         IN  [threw |-> FALSE,
              st |-> IF Adopts(data, req)
                     THEN setSessionId(s1, data.session_id)
                     ELSE s1]

\* catch (error) { setMessages(prev => [...prev, fallback]) }
CatchBlock(st) ==
    Identified(setMessagesAppend(st, fallbackMessage), fallbackMessageId)

\* finally { setIsLoading(false) }
FinallyBlock(st) == setIsLoading(st, FALSE)

\* a continuation that re-issues a failed request instead of giving up
ContinuationRetrying(i, outcome) ==
    LET req == inflight[i]
        st  == [State EXCEPT !.inflight = RemoveAt(@, i)]
        t   == TryBody(st, req, outcome)
    IN  IF t.threw THEN State ELSE FinallyBlock(t.st)

\* a continuation that clears the in-flight flag at the end of try only
ContinuationNoFinally(i, outcome) ==
    LET req == inflight[i]
        st  == [State EXCEPT !.inflight = RemoveAt(@, i)]
        t   == TryBody(st, req, outcome)
    IN  IF t.threw THEN CatchBlock(t.st) ELSE FinallyBlock(t.st)

\* the rest of sendMessage for request i once its fetch settled with outcome
Continuation(i, outcome) ==
    LET req == inflight[i]
        st  == [State EXCEPT !.inflight = RemoveAt(@, i)]
        t   == TryBody(st, req, outcome)
    IN  FinallyBlock(IF t.threw THEN CatchBlock(t.st) ELSE t.st)

\* how the promise returned by sendMessage settles: the catch block handles
\* every throw of the try body and neither catch nor finally throws
PromiseResult(i, outcome) == "fulfilled"

settle(i, outcome) ==
    /\ Commit(Continuation(i, outcome))
    /\ lastEvent' = [op |-> "settle", req |-> inflight[i], outcome |-> outcome,
                     promise |-> PromiseResult(i, outcome)]
    /\ UNCHANGED <<urlSessionId, now>>
    /\ UNCHANGED <<dashVars, apiVars>>

----------------------------------------------------------------------------
(* startNewChat *)

startNewChat ==
    /\ Commit(setSessionId([State EXCEPT !.messages = <<>>, !.ids = <<>>],
                           NoId))
    /\ lastEvent' = [op |-> "startNewChat"]
    /\ UNCHANGED <<urlSessionId, now>>
    /\ UNCHANGED <<dashVars, apiVars>>

----------------------------------------------------------------------------
(* UI events.  The textarea is disabled while isLoading; the send button is *)
(* disabled while isLoading or the input is blank; the suggestion cards    *)
(* are rendered only while the message sequence is empty.                  *)

\* room for the two messages of one more exchange
Room == Len(messages) + 2 <= MaxMsgs

\* onChange of the textarea
ChangeInput ==
    /\ ~isLoading
    /\ \E t \in Texts : inputMessage' = t
    /\ lastEvent' = [op |-> "change"]
    /\ UNCHANGED <<messages, isLoading, sessionId, urlSessionId, inflight, log,
                   now, ids>>
    /\ UNCHANGED <<dashVars, apiVars>>

\* onClick of the send button: sendMessage()
ClickSend ==
    /\ Room
    /\ ~(Trim(inputMessage) = <<>> \/ isLoading)
    /\ sendMessage(Undefined)

\* Enter without Shift in the textarea: sendMessage()
handleKeyDown ==
    /\ Room
    /\ ~isLoading
    /\ sendMessage(Undefined)

\* click on a suggestion card of the welcome screen: sendMessage(suggestion)
ClickSuggestion ==
    /\ Room
    /\ Len(messages) = 0
    /\ \E s \in suggestions : sendMessage(s)

ClickNewChat == startNewChat

\* the backend, or the network, settles an outstanding request
Settle == \E i \in 1..Len(inflight) : \E o \in Outcomes : settle(i, o)

\* a millisecond passes: the next Date.now() returns a greater value
Tick ==
    /\ now < MaxClock
    /\ now' = now + 1
    /\ lastEvent' = [op |-> "tick"]
    /\ UNCHANGED <<messages, inputMessage, isLoading, sessionId, urlSessionId,
                   inflight, log, ids>>
    /\ UNCHANGED <<dashVars, apiVars>>

----------------------------------------------------------------------------
(* Dashboard page: values *)

\* requests of the page (loads and deletes) outstanding at a time
MaxOutstanding == 2

\* error === null
NoError == "null"

LoadError == "Failed to load dashboard data. Please try again."

DeleteError == "Failed to delete session. Please try again."

\* a DashboardStats object whose four counters are n
StatsOf(n) == [research_sessions |-> n, messages_exchanged |-> n,
               sources_cited |-> n, research_hours |-> n]

\* useState<DashboardStats>({ ...: 0 })
DefaultStats == StatsOf(0)

SessionIds == {1, 2}

\* a ResearchSession, reduced to its id
SessionOf(id) == [id |-> id]

\* the session lists the backend returns: no id twice
SessionLists ==
    {l \in UNION {[1..n -> {SessionOf(id) : id \in SessionIds}] :
                      n \in 0..Cardinality(SessionIds)} :
        \A a, b \in 1..Len(l) : l[a] = l[b] => a = b}

InsightLists == {<<>>, <<"insight">>}

\* the three reads, in the order of the Promise.all array
StatsReq == 1

SessionsReq == 2

InsightsReq == 3

Endpoints == {StatsReq, SessionsReq, InsightsReq}

\* where a load is suspended: at Promise.all, or at the json() of response k
AtAll == 0

\* a JSON object without the property that is read from it
EmptyObject == [kind |-> "object"]

\* parsed JSON bodies of the three endpoints
StatsBodies == {[kind |-> "object", data |-> StatsOf(1)]}

SessionsBodies == [kind : {"object"}, sessions : SessionLists] \cup {EmptyObject}

InsightsBodies == [kind : {"object"}, insights : InsightLists] \cup {EmptyObject}

\* what response.json() of endpoint k may find
ReadBodies(k) ==
    IF k = StatsReq THEN StatsBodies \cup {Unparseable}
    ELSE IF k = SessionsReq THEN SessionsBodies \cup {JsonNull, Unparseable}
    ELSE InsightsBodies \cup {JsonNull, Unparseable}

Pending == [kind |-> "pending"]

\* what a fetch settles with: a rejection, or a response that is ok (2xx)
\* or not; the body is read later, by response.json()
FetchOutcomes == {NetworkError} \cup [kind : {"response"}, ok : BOOLEAN]

----------------------------------------------------------------------------
(* Dashboard page: React state as a record d, and its setters *)

Dash == [stats |-> stats, recentSessions |-> recentSessions,
         insights |-> insights, loading |-> loading, error |-> error,
         loads |-> loads]

setLoading(d, b) == [d EXCEPT !.loading = b]

setError(d, e) == [d EXCEPT !.error = e]

setStats(d, v) == [d EXCEPT !.stats = v]

setRecentSessions(d, v) == [d EXCEPT !.recentSessions = v]

setInsights(d, v) == [d EXCEPT !.insights = v]

DashCommit(d) ==
    /\ stats' = d.stats
    /\ recentSessions' = d.recentSessions
    /\ insights' = d.insights
    /\ loading' = d.loading
    /\ error' = d.error
    /\ loads' = d.loads

----------------------------------------------------------------------------
(* fetchDashboardData *)

\* a call of fetchDashboardData that has not returned: the outcome of each
\* fetch so far, where the call is suspended (pc), and, for stating the
\* claims, the slices this call has set (applied) and the deletes the
\* backend had served when the 2xx sessions response of this call, not yet
\* read, came in (after)
NewLoad == [resp |-> [k \in Endpoints |-> Pending], pc |-> AtAll,
            applied |-> {}, after |-> {}]

\* the outstanding loads, and the outstanding deletes, are bags: two calls
\* in the same condition are not told apart
One(x) == SetToBag({x})

\* setLoading(true); setError(null); the three fetches; await Promise.all
fetchDashboardData(d) ==
    LET d1 == setLoading(d, TRUE)
        d2 == setError(d1, NoError)
    IN  [d2 EXCEPT !.loads = @ (+) One(NewLoad)]

\* a gather that reports a rejection only once every fetch has settled
AllRejectedLate(load) ==
    /\ \A k \in Endpoints : load.resp[k].kind # "pending"
    /\ \E k \in Endpoints : load.resp[k].kind = "networkError"

\* Promise.all rejects as soon as one fetch has rejected
AllRejected(load) == \E k \in Endpoints : load.resp[k].kind = "networkError"

\* a gather that resolves with the first response
AllResolvedAny(load) == \E k \in Endpoints : load.resp[k].kind = "response"

\* Promise.all resolves once every fetch has resolved
AllResolved(load) == \A k \in Endpoints : load.resp[k].kind = "response"

\* the test of a response that forgets its status
RespOkAnyStatus(load, k) == load.resp[k].kind = "response"

\* if (response.ok), for a response Promise.all has delivered
RespOk(load, k) == load.resp[k].kind = "response" /\ load.resp[k].ok

\* the first response from k on that is ok, or 4 when there is none
FirstOk(load, k) ==
    IF \E j \in Endpoints : j >= k /\ RespOk(load, j)
    THEN CHOOSE j \in Endpoints :
             /\ j >= k /\ RespOk(load, j)
             /\ \A h \in Endpoints : (h >= k /\ RespOk(load, h)) => j <= h
    ELSE 4

\* response.json() rejects, or a property of null is read
Throws(k, body) ==
    \/ body.kind = "unparseable"
    \/ k # StatsReq /\ body.kind = "null"

\* setStats(statsData) / setRecentSessions(sessionsData.sessions || []) /
\* setInsights(insightsData.insights || [])
ApplyBody(d, k, body) ==
    IF k = StatsReq THEN setStats(d, body.data)
    ELSE IF k = SessionsReq
    THEN setRecentSessions(d, IF "sessions" \in DOMAIN body
                              THEN body.sessions ELSE <<>>)
    ELSE setInsights(d, IF "insights" \in DOMAIN body
                        THEN body.insights ELSE <<>>)

\* catch: setError(...)
LoadCatch(d) == setError(d, LoadError)

\* finally: setLoading(false)
LoadFinally(d) == setLoading(d, FALSE)

\* result of running a load: the page state (done: the call returned;
\* threw: through catch)
Returned(d, old, threw) ==
    [d |-> [d EXCEPT !.loads = @ (-) One(old)], done |-> TRUE, threw |-> threw]

Suspended(d, old, load) ==
    [d |-> [d EXCEPT !.loads = (@ (-) One(old)) (+) One(load)],
     done |-> FALSE, threw |-> FALSE]

\* run the load old, now load, from the test of response k up to its next
\* await or its end
Advance(d, old, load, k) ==
    LET j == FirstOk(load, k) IN
    IF j = 4 THEN Returned(LoadFinally(d), old, FALSE)
    ELSE Suspended(d, old, [load EXCEPT !.pc = j])

\* json() of response load.pc has settled with body
Resume(d, load, body) ==
    LET k == load.pc IN
    IF Throws(k, body)
    THEN Returned(LoadFinally(LoadCatch(d)), load, TRUE)
    ELSE Advance(ApplyBody(d, k, body), load,
                 [load EXCEPT !.applied = @ \cup {k},
                              !.after = IF k = SessionsReq THEN {} ELSE @],
                 k + 1)

\* fetch k of a load settles with outcome o, and Promise.all with it when
\* this decides it
Arrived(d, load, k, o) ==
    LET l1 == [load EXCEPT !.resp[k] = o,
                           !.after = IF /\ k = SessionsReq
                                        /\ o.kind = "response" /\ o.ok
                                     THEN served ELSE @] IN
    IF AllRejected(l1) THEN Returned(LoadFinally(LoadCatch(d)), load, TRUE)
    ELSE IF AllResolved(l1) THEN Advance(d, load, l1, StatsReq)
    ELSE Suspended(d, load, l1)

\* the network settles one fetch of an outstanding load
FetchSettles ==
    \E load \in BagToSet(loads) : \E k \in Endpoints : \E o \in FetchOutcomes :
        LET r == Arrived(Dash, load, k, o) IN
        /\ load.pc = AtAll
        /\ load.resp[k] = Pending
        /\ DashCommit(r.d)
        /\ dashEvent' = [op |-> "fetchSettles", k |-> k,
                         outcome |-> o, done |-> r.done, threw |-> r.threw]
        /\ UNCHANGED <<isLoaded, deletes, served>>
        /\ UNCHANGED <<chatVars, apiVars>>

\* the body of the response a load is reading has been read
JsonSettles ==
    \E load \in BagToSet(loads) :
        /\ load.pc \in Endpoints
        /\ \E body \in ReadBodies(load.pc) :
             LET r == Resume(Dash, load, body) IN
             /\ DashCommit(r.d)
             /\ dashEvent' = [op |-> "jsonSettles",
                              k |-> load.pc, body |-> body,
                              ok |-> {j \in Endpoints : RespOk(load, j)},
                              done |-> r.done, threw |-> r.threw]
        /\ UNCHANGED <<isLoaded, deletes, served>>
        /\ UNCHANGED <<chatVars, apiVars>>

\* useEffect(() => { setIsLoaded(true); fetchDashboardData() }, [])
Mount ==
    /\ ~isLoaded
    /\ isLoaded' = TRUE
    /\ DashCommit(fetchDashboardData(Dash))
    /\ dashEvent' = [op |-> "mount"]
    /\ UNCHANGED <<deletes, served>>
    /\ UNCHANGED <<chatVars, apiVars>>

\* room for one more outstanding request
DashRoom == BagCardinality(loads) + BagCardinality(deletes) < MaxOutstanding

\* the Retry button of the error banner; the page shows only the spinner
\* while loading
ClickRetry ==
    /\ DashRoom
    /\ isLoaded /\ ~loading /\ error # NoError
    /\ DashCommit(fetchDashboardData(Dash))
    /\ dashEvent' = [op |-> "retry"]
    /\ UNCHANGED <<isLoaded, deletes, served>>
    /\ UNCHANGED <<chatVars, apiVars>>

----------------------------------------------------------------------------
(* deleteSession *)

\* a filter with the comparison inverted
FilterOutInverted(list, id) == SelectSeq(list, LAMBDA session : session.id = id)

\* prev.filter(session => session.id !== sessionId)
FilterOut(list, id) == SelectSeq(list, LAMBDA session : session.id # id)

\* the test of the delete response that forgets its status
DeleteOkAnyStatus(o) == o.kind = "response"

\* if (response.ok)
DeleteOk(o) == o.kind = "response" /\ o.ok

\* a continuation that clears the banner instead of refreshing
DeleteContinuationNoRefresh(d, id, o) ==
    IF DeleteOk(o)
    THEN setError(setRecentSessions(d, FilterOut(d.recentSessions, id)), NoError)
    ELSE setError(d, DeleteError)

\* the part of deleteSession after the await of its fetch
DeleteContinuation(d, id, o) ==
    IF DeleteOk(o)
    THEN fetchDashboardData(setRecentSessions(d, FilterOut(d.recentSessions, id)))
    ELSE setError(d, DeleteError)

\* a delete that issues its request whatever the dialog answered
deleteSessionUnasked ==
    /\ isLoaded /\ ~loading
    /\ DashRoom
    /\ \E n \in 1..Len(recentSessions) : \E confirmed \in BOOLEAN :
         LET id == recentSessions[n].id IN
         /\ deletes' = deletes (+) One(id)
         /\ dashEvent' = [op |-> "deleteSession", id |-> id,
                          confirmed |-> confirmed]
    /\ UNCHANGED <<isLoaded, stats, recentSessions, insights, loading, error,
                   loads, served>>
    /\ UNCHANGED <<chatVars, apiVars>>

\* the trash button of a displayed session, then the confirm() dialog
deleteSession ==
    /\ isLoaded /\ ~loading
    /\ \E n \in 1..Len(recentSessions) : \E confirmed \in BOOLEAN :
         LET id == recentSessions[n].id IN
         /\ IF confirmed
            THEN /\ DashRoom
                 /\ deletes' = deletes (+) One(id)
            ELSE UNCHANGED deletes
         /\ dashEvent' = [op |-> "deleteSession", id |-> id,
                          confirmed |-> confirmed]
    /\ UNCHANGED <<isLoaded, stats, recentSessions, insights, loading, error,
                   loads, served>>
    /\ UNCHANGED <<chatVars, apiVars>>

\* an outstanding delete request settles, as the page sees it
DeleteArrives ==
    \E id \in BagToSet(deletes) : \E o \in FetchOutcomes :
        /\ DashCommit(DeleteContinuation(Dash, id, o))
        /\ deletes' = deletes (-) One(id)
        /\ dashEvent' = [op |-> "deleteSettles", id |-> id, outcome |-> o]
        /\ UNCHANGED isLoaded
        /\ UNCHANGED <<chatVars, apiVars>>

\* the network settles an outstanding delete request; what the backend has
\* served is not followed
DeleteSettles == DeleteArrives /\ UNCHANGED served

----------------------------------------------------------------------------
(* The HTTP client wrapper (lib/api.ts) and the URLs of the requests *)

\* the environment variable is not set (or is the empty string)
Unset == ""

\* the values of the environment variable; a base URL is written without
\* a trailing slash and a path with a leading one, for which the URL axios
\* builds from baseURL and path is their concatenation
EnvValues == {Unset, "https://api.scholarai.example/api"}

\* process.env.NEXT_PUBLIC_API_URL || 'http://localhost:8000/api'
API_BASE_URL ==
    IF NEXT_PUBLIC_API_URL = Unset THEN "http://localhost:8000/api"
    ELSE NEXT_PUBLIC_API_URL

\* a request of the axios instance: baseURL and path
api(method, path) ==
    [method |-> method, path |-> path, url |-> API_BASE_URL \o path]

\* the session ids and queries the wrapper calls are made with
ApiSessionIds == {"7"}

ApiQueries == {"llm"}

\* chatAPI: sendMessage, getSessions, getSession, deleteSession
chatAPI ==
    {api("POST", "/chat/send/"), api("GET", "/chat/sessions/")}
    \cup {api("GET", "/chat/sessions/" \o id \o "/") : id \in ApiSessionIds}
    \cup {api("DELETE", "/chat/sessions/" \o id \o "/") : id \in ApiSessionIds}

\* researchAPI: search, getSources
researchAPI ==
    {api("POST", "/research/search/")}
    \cup {api("GET", "/research/sources/?q=" \o q) : q \in ApiQueries}

\* the fetch of sendMessage on the chat page
ChatSendRequest ==
    [method |-> "POST", path |-> "/chat/send/",
     url |-> "http://127.0.0.1:8000/api/chat/send/"]

\* the three fetches of fetchDashboardData
DashboardReadRequest(k) ==
    IF k = StatsReq
    THEN [method |-> "GET", path |-> "/chat/dashboard/stats/",
          url |-> "http://127.0.0.1:8000/api/chat/dashboard/stats/"]
    ELSE IF k = SessionsReq
    THEN [method |-> "GET", path |-> "/chat/dashboard/sessions/",
          url |-> "http://127.0.0.1:8000/api/chat/dashboard/sessions/"]
    ELSE [method |-> "GET", path |-> "/chat/dashboard/insights/",
          url |-> "http://127.0.0.1:8000/api/chat/dashboard/insights/"]

\* the fetch of deleteSession on the dashboard page
DashboardDeleteRequest(id) ==
    [method |-> "DELETE",
     path |-> "/chat/dashboard/sessions/" \o ToString(id) \o "/delete/",
     url |-> "http://127.0.0.1:8000/api/chat/dashboard/sessions/"
               \o ToString(id) \o "/delete/"]

\* the status codes and bodies of a response to the health probe
HttpStatuses == 100..599

HealthData == {"ok", "degraded"}

HealthOutcomes ==
    {NetworkError}
    \cup [kind : {"response"}, status : HttpStatuses, data : HealthData]

\* axios.create is given no validateStatus: the default resolves 2xx only
validateStatus(status) == status >= 200 /\ status < 300

\* api.get: resolves with the response or rejects with an axios error
AxiosSettle(o) ==
    IF o.kind = "response" /\ validateStatus(o.status)
    THEN [kind |-> "resolve", data |-> o.data]
    ELSE [kind |-> "reject", message |-> "AxiosError"]

BackendUnavailable == "Backend is not available"

\* a health probe that lets the error of the client through
healthCheckUncaught(o) ==
    LET r == AxiosSettle(o)
    IN  IF r.kind = "resolve"
        THEN [kind |-> "return", value |-> r.data]
        ELSE [kind |-> "throw", message |-> r.message]

\* healthCheck, for the outcome o of its request
healthCheck(o) ==
    LET r == AxiosSettle(o)
    IN  IF r.kind = "resolve"
        THEN [kind |-> "return", value |-> r.data]
        ELSE [kind |-> "throw", message |-> BackendUnavailable]

\* a call of healthCheck and its outcome
HealthCheck ==
    /\ \E o \in HealthOutcomes :
          apiEvent' = [op |-> "healthCheck", request |-> api("GET", "/health/"),
                       outcome |-> o, result |-> healthCheck(o)]
    /\ UNCHANGED <<chatVars, dashVars, NEXT_PUBLIC_API_URL>>

\* a call of one of the chatAPI functions
ChatApiCall ==
    /\ \E r \in chatAPI : apiEvent' = [op |-> "chatAPI", request |-> r]
    /\ UNCHANGED <<chatVars, dashVars, NEXT_PUBLIC_API_URL>>

\* a call of one of the researchAPI functions
ResearchApiCall ==
    /\ \E r \in researchAPI : apiEvent' = [op |-> "researchAPI", request |-> r]
    /\ UNCHANGED <<chatVars, dashVars, NEXT_PUBLIC_API_URL>>

\* the request of the chat page
ChatSendFetch ==
    /\ apiEvent' = [op |-> "sendMessage", request |-> ChatSendRequest]
    /\ UNCHANGED <<chatVars, dashVars, NEXT_PUBLIC_API_URL>>

\* a read request of the dashboard page
DashboardReadFetch ==
    /\ \E k \in Endpoints :
          apiEvent' = [op |-> "fetchDashboardData",
                       request |-> DashboardReadRequest(k)]
    /\ UNCHANGED <<chatVars, dashVars, NEXT_PUBLIC_API_URL>>

\* the delete request of the dashboard page
DashboardDeleteFetch ==
    /\ \E id \in SessionIds :
          apiEvent' = [op |-> "deleteSession",
                       request |-> DashboardDeleteRequest(id)]
    /\ UNCHANGED <<chatVars, dashVars, NEXT_PUBLIC_API_URL>>

----------------------------------------------------------------------------
(* Specification *)

\* the client module as loaded in a build without the environment variable
ApiInitial ==
    /\ NEXT_PUBLIC_API_URL = Unset
    /\ apiEvent = [op |-> "load"]

\* the useState values of the dashboard page before its mount effect
DashInitial ==
    /\ isLoaded = FALSE
    /\ stats = DefaultStats
    /\ recentSessions = <<>>
    /\ insights = <<>>
    /\ loading = TRUE
    /\ error = NoError
    /\ loads = EmptyBag
    /\ deletes = EmptyBag
    /\ dashEvent = [op |-> "render"]
    /\ served = {}

\* the state after mount: the initial useState values, then the URL effect
Init ==
    /\ urlSessionId \in UrlIds
    /\ messages = <<>>
    /\ inputMessage = <<>>
    /\ isLoading = FALSE
    /\ sessionId = urlSessionId
    /\ inflight = <<>>
    /\ log = <<>>
    /\ lastEvent = [op |-> "mount"]
    /\ now = 0
    /\ ids = <<>>
    /\ DashInitial
    /\ ApiInitial

Next ==
    \/ ChangeInput
    \/ ClickSend
    \/ handleKeyDown
    \/ ClickSuggestion
    \/ ClickNewChat
    \/ Settle

Spec == Init /\ [][Next]_vars

\* the dashboard page, from its first render
DashInit ==
    /\ DashInitial
    /\ ApiInitial
    /\ urlSessionId = NoId
    /\ messages = <<>>
    /\ inputMessage = <<>>
    /\ isLoading = FALSE
    /\ sessionId = NoId
    /\ inflight = <<>>
    /\ log = <<>>
    /\ lastEvent = [op |-> "mount"]
    /\ now = 0
    /\ ids = <<>>

DashNext ==
    \/ Mount
    \/ ClickRetry
    \/ FetchSettles
    \/ JsonSettles
    \/ deleteSession
    \/ DeleteSettles

DashSpec == DashInit /\ [][DashNext]_vars

\* a sessions body that lists none of the sessions whose delete the
\* backend had served when the response came in
OmitsServed(load, body) ==
    (load.pc = SessionsReq /\ "sessions" \in DOMAIN body)
        => \A n \in 1..Len(body.sessions) :
               body.sessions[n].id \notin load.after

\* DeleteSettles with the backend followed: a 2xx response tells that it
\* has served the delete
ServedDeleteSettles ==
    /\ DeleteArrives
    /\ served' = IF /\ dashEvent'.outcome.kind = "response"
                    /\ dashEvent'.outcome.ok
                 THEN served \cup {dashEvent'.id} ELSE served

\* JsonSettles for a backend that keeps a deleted session out of its later
\* sessions responses
ConsistentJsonSettles ==
    /\ JsonSettles
    /\ \E load \in BagToSet(loads) :
          /\ CopiesIn(load, loads') < CopiesIn(load, loads)
          /\ OmitsServed(load, dashEvent'.body)

\* the dashboard page in front of such a backend
BackendNext ==
    \/ Mount
    \/ ClickRetry
    \/ FetchSettles
    \/ ConsistentJsonSettles
    \/ deleteSession
    \/ ServedDeleteSettles

BackendSpec == DashInit /\ [][BackendNext]_vars

\* the chat page under the premise that every network call settles
LiveSpec == Init /\ [][Next]_vars /\ WF_vars(Settle)

\* the chat page while time passes; Spec follows it at one reading of the
\* clock
ClockNext ==
    \/ ChangeInput
    \/ ClickSend
    \/ handleKeyDown
    \/ ClickSuggestion
    \/ ClickNewChat
    \/ Settle
    \/ Tick

ClockSpec == Init /\ [][ClockNext]_vars

\* the requests of the frontend, for every value of the environment variable
ApiInit ==
    /\ NEXT_PUBLIC_API_URL \in EnvValues
    /\ apiEvent = [op |-> "load"]
    /\ DashInitial
    /\ urlSessionId = NoId
    /\ messages = <<>>
    /\ inputMessage = <<>>
    /\ isLoading = FALSE
    /\ sessionId = NoId
    /\ inflight = <<>>
    /\ log = <<>>
    /\ lastEvent = [op |-> "mount"]
    /\ now = 0
    /\ ids = <<>>

ApiNext ==
    \/ HealthCheck
    \/ ChatApiCall
    \/ ResearchApiCall
    \/ ChatSendFetch
    \/ DashboardReadFetch
    \/ DashboardDeleteFetch

ApiSpec == ApiInit /\ [][ApiNext]_vars

----------------------------------------------------------------------------
(* Vocabulary of the claims *)

SendStep == lastEvent'.op = "sendMessage"

SettleStep == lastEvent'.op = "settle"

NewChatStep == lastEvent'.op = "startNewChat"

\* a call the guard lets through, judged in the state it is made in
Accepted(text) == Trim(text) # <<>> /\ ~isLoading

Last(s) == s[Len(s)]

\* what a user message carrying text looks like in the sequence
UserSaid(text) == [role |-> "user", content |-> text, sources |-> Undefined]

Is2xx(status) == status >= 200 /\ status < 300

\* a body that does not parse to a JSON object
Malformed(body) == body.kind # "object"

\* the three failures of the network call
Failed(o) ==
    \/ o.kind = "networkError"
    \/ o.kind = "response" /\ (~Is2xx(o.status) \/ Malformed(o.body))

\* a 2xx response whose body carries a message and a session id
Success(o) ==
    /\ o.kind = "response"
    /\ Is2xx(o.status)
    /\ o.body.kind = "object"
    /\ o.body.message # Undefined
    /\ HasId(o.body.session_id)

EffectOrder == <<"appendUser", "clearInput", "loadingTrue", "fetch",
                 "appendAssistant", "loadingFalse">>

----------------------------------------------------------------------------
(* Claims *)

\* C1: at most one chat send request is outstanding in every reachable
\* state, and a sendMessage call made while the in-flight flag is true
\* issues no request and leaves the message sequence unchanged.
C1_SingleRequest ==
    /\ [](Len(inflight) <= 1)
    /\ [][(SendStep /\ isLoading)
            => (inflight' = inflight /\ messages' = messages)]_vars

\* a non-blank call was made while a request is outstanding (a suggestion
\* card clicked after New Chat), and nothing was sent for it
C1_Witness ==
    /\ lastEvent.op = "sendMessage"
    /\ Trim(lastEvent.textToSend) # <<>>
    /\ isLoading
    /\ Len(inflight) = 1
    /\ messages = <<>>

\* C2: a sendMessage call whose text is empty after trimming issues no
\* request and leaves messages, input buffer, in-flight flag and session id
\* unchanged.
C2_BlankIsNoOp ==
    [][(SendStep /\ Trim(lastEvent'.textToSend) = <<>>)
         => UNCHANGED <<messages, inputMessage, isLoading, sessionId,
                        inflight>>]_vars

\* a whitespace-only text was submitted while idle and stayed in the buffer
C2_Witness ==
    /\ lastEvent.op = "sendMessage"
    /\ lastEvent.textToSend # <<>>
    /\ Trim(lastEvent.textToSend) = <<>>
    /\ inputMessage = lastEvent.textToSend
    /\ ~isLoading

\* C3 as stated: for every non-empty input string a sendMessage call appends
\* exactly one user message, at the call, before the network call resolves.
C3_Original ==
    [][(SendStep /\ lastEvent'.textToSend # <<>>)
         => /\ messages' = Append(messages, UserSaid(lastEvent'.textToSend))
            /\ Len(inflight') = Len(inflight) + 1]_vars

\* C3 amended: for every input string that is non-empty after trimming, a
\* sendMessage call made while no request is in flight appends exactly one
\* user message carrying that string, in the step of the call, while the
\* request it issues is still outstanding.
C3_AppendsUserAtCall ==
    [][(SendStep /\ Accepted(lastEvent'.textToSend))
         => /\ messages' = Append(messages, UserSaid(lastEvent'.textToSend))
            /\ Len(inflight') = Len(inflight) + 1
            /\ Last(inflight').message = lastEvent'.textToSend]_vars

\* a padded text was accepted: its user message is last in the sequence
\* while its request is outstanding
C3_Witness ==
    /\ lastEvent.op = "sendMessage"
    /\ lastEvent.textToSend # Trim(lastEvent.textToSend)
    /\ Len(inflight) = 1
    /\ Len(messages) > 0
    /\ Last(messages) = UserSaid(lastEvent.textToSend)

\* C4: an accepted call performs its effects in the order user message
\* appended, input cleared, in-flight flag true, request issued, one
\* assistant message appended, in-flight flag false; the flag is true for as
\* long as the request is outstanding.
C4_EffectOrder ==
    /\ [](log \in {<<>>, SubSeq(EffectOrder, 1, 4), EffectOrder})
    /\ []((inflight # <<>>) <=> (Len(log) = 4))
    /\ [](inflight # <<>> => isLoading)
    /\ [][(SendStep /\ Accepted(lastEvent'.textToSend))
            => /\ Last(messages').role = "user"
               /\ inputMessage' = <<>>
               /\ isLoading']_vars
    /\ [][SettleStep
            => /\ Len(messages') = Len(messages) + 1
               /\ Last(messages').role = "assistant"
               /\ ~isLoading']_vars

\* a call has run to its end
C4_Witness ==
    /\ lastEvent.op = "settle"
    /\ log = EffectOrder
    /\ ~isLoading
    /\ inflight = <<>>

\* C5: a call issued with no session id held and answered successfully with
\* {message: m, session_id: s} leaves the sequence it found extended by
\* [user: text, assistant: m], and the held session id equal to s.
C5_SuccessScenario ==
    [][(SettleStep /\ Success(lastEvent'.outcome)
          /\ ~HasId(lastEvent'.req.session_id))
         => /\ messages' = lastEvent'.req.base \o
                  <<UserSaid(lastEvent'.req.message),
                    assistantMessage(lastEvent'.outcome.body)>>
            /\ sessionId' = lastEvent'.outcome.body.session_id]_vars

\* C6: when the network call fails (network error, non-2xx status or
\* malformed body) the assistant message appended is the fixed apology
\* message without sources, and nothing built from the body is appended.
C6_FailureGivesFallback ==
    [][(SettleStep /\ Failed(lastEvent'.outcome))
         => messages' = Append(messages, fallbackMessage)]_vars

\* C7: a call whose network call fails leaves the held session id unchanged.
C7_FailureKeepsSessionId ==
    [][(SettleStep /\ Failed(lastEvent'.outcome))
         => sessionId' = sessionId]_vars

\* C8: a held session id is not changed by any later response, whatever id
\* that response carries; it changes only through startNewChat.
C8_FirstWriterWins ==
    /\ [][(SettleStep /\ HasId(sessionId)) => sessionId' = sessionId]_vars
    /\ [][(HasId(sessionId) /\ sessionId' # sessionId) => NewChatStep]_vars

\* an id adopted from the server is still held after a response that
\* carried a different id
C8_Witness ==
    /\ lastEvent.op = "settle"
    /\ lastEvent.outcome.kind = "response"
    /\ lastEvent.outcome.body.kind = "object"
    /\ HasId(lastEvent.outcome.body.session_id)
    /\ sessionId \in ServerIds
    /\ lastEvent.outcome.body.session_id # sessionId

\* C9: startNewChat issues no request and leaves an empty message sequence
\* and an unset session id, from any prior state.
C9_NewChatResets ==
    [][NewChatStep
         => /\ messages' = <<>>
            /\ sessionId' = NoId
            /\ inflight' = inflight]_vars

C11_FlagReleased ==
    /\ isLoading ~> ~isLoading
    /\ [][(SettleStep /\ Failed(lastEvent'.outcome)) => ~isLoading']_vars
    /\ [][(SendStep /\ ~isLoading /\ Trim(lastEvent'.textToSend) # <<>>)
            => /\ Len(inflight') = Len(inflight) + 1
               /\ Last(messages') = UserSaid(lastEvent'.textToSend)]_vars

\* a call made after a failed one was accepted
C11_Witness ==
    /\ lastEvent.op = "sendMessage"
    /\ Len(messages) = 3
    /\ messages[2] = fallbackMessage
    /\ messages[3] = UserSaid(lastEvent.textToSend)
    /\ Len(inflight) = 1
    /\ isLoading

IsPrefix(s, t) == Len(s) <= Len(t) /\ SubSeq(t, 1, Len(s)) = s

\* C12: every step other than startNewChat leaves the messages already in
\* the sequence in place and at most appends at the end; startNewChat
\* removes all of them.
C12_AppendOnly ==
    /\ [][~NewChatStep => IsPrefix(messages, messages')]_vars
    /\ [][NewChatStep => messages' = <<>>]_vars

\* the sequence has grown over two exchanges
C12_Witness ==
    /\ lastEvent.op = "settle"
    /\ Len(messages) = 4
    /\ messages[1].role = "user"
    /\ messages[3].role = "user"

----------------------------------------------------------------------------
(* Vocabulary of the dashboard claims *)

FetchStep == dashEvent'.op = "fetchSettles"

JsonStep == dashEvent'.op = "jsonSettles"

DeleteSettleStep == dashEvent'.op = "deleteSettles"

\* the load that ran in this step
Stepped == CHOOSE l \in BagToSet(loads) : CopiesIn(l, loads') < CopiesIn(l, loads)

\* the endpoints whose response in load l is 2xx
OkSet(l) == {j \in Endpoints :
                l.resp[j].kind = "response" /\ l.resp[j].ok}

\* load l got three responses, exactly one of them non-2xx
OneNon2xx(l) ==
    /\ \A j \in Endpoints : l.resp[j].kind = "response"
    /\ Cardinality(OkSet(l)) = 2

\* the value a parsed body carries for the slice of endpoint k
BodyValue(k, body) ==
    IF k = StatsReq THEN body.data
    ELSE IF k = SessionsReq
    THEN (IF "sessions" \in DOMAIN body THEN body.sessions ELSE <<>>)
    ELSE (IF "insights" \in DOMAIN body THEN body.insights ELSE <<>>)

\* a body that parses to a JSON object
Parses(body) == body.kind = "object"

\* what a step of a load that reads the body of response k does to the
\* slices: that of k is taken from the body, the others stay
SliceUpdate(k, body) ==
    /\ stats' = IF k = StatsReq THEN BodyValue(k, body) ELSE stats
    /\ recentSessions' = IF k = SessionsReq THEN BodyValue(k, body)
                         ELSE recentSessions
    /\ insights' = IF k = InsightsReq THEN BodyValue(k, body) ELSE insights

\* idle: before the mount effect; then by the loading and the error flag
LoadState == IF ~isLoaded THEN "idle"
             ELSE IF loading THEN "loading"
             ELSE IF error # NoError THEN "error"
             ELSE "loaded"

----------------------------------------------------------------------------
(* Dashboard claims *)

C14_NetworkErrorAborts ==
    [][(FetchStep /\ dashEvent'.outcome.kind = "networkError")
         => /\ Stepped.applied = {}
            /\ UNCHANGED <<stats, recentSessions, insights>>
            /\ error' = LoadError
            /\ ~loading'
            /\ BagCardinality(loads') = BagCardinality(loads) - 1]_vars

\* a retry ended in a network error and left the stats of an earlier load
C14_Witness ==
    /\ dashEvent.op = "fetchSettles"
    /\ dashEvent.outcome.kind = "networkError"
    /\ error = LoadError
    /\ ~loading
    /\ stats = StatsOf(1)
    /\ loads = EmptyBag

\* C15 as stated: the only transitions of the load state are idle to
\* loading, loading to loaded, loading to error and error to loading.
C15_Original ==
    [][\/ LoadState' = LoadState
       \/ <<LoadState, LoadState'>> \in
             {<<"idle", "loading">>, <<"loading", "loaded">>,
              <<"loading", "error">>, <<"error", "loading">>}]_vars

\* C15 amended: besides these four, the load state goes from loaded to
\* loading (and from error to loading) when a delete succeeded and starts
\* its refresh, and from loaded to error when a delete failed or an
\* overlapping load failed; error to loading also happens on retry.
C15_Transitions ==
    [][\/ LoadState' = LoadState
       \/ /\ <<LoadState, LoadState'>> = <<"idle", "loading">>
          /\ dashEvent'.op = "mount"
       \/ /\ LoadState = "loading"
          /\ LoadState' \in {"loaded", "error"}
          /\ dashEvent'.op \in {"fetchSettles", "jsonSettles"}
          /\ dashEvent'.done
       \/ /\ <<LoadState, LoadState'>> = <<"error", "loading">>
          /\ \/ dashEvent'.op = "retry"
             \/ DeleteSettleStep /\ dashEvent'.outcome.kind = "response"
                                 /\ dashEvent'.outcome.ok
       \/ /\ <<LoadState, LoadState'>> = <<"loaded", "loading">>
          /\ DeleteSettleStep /\ dashEvent'.outcome.kind = "response"
                              /\ dashEvent'.outcome.ok
       \/ /\ <<LoadState, LoadState'>> = <<"loaded", "error">>
          /\ \/ DeleteSettleStep
             \/ dashEvent'.op \in {"fetchSettles", "jsonSettles"}
                /\ dashEvent'.threw]_vars

\* a successful delete has put the page back into loading
C15_Witness ==
    /\ dashEvent.op = "deleteSettles"
    /\ dashEvent.outcome.kind = "response" /\ dashEvent.outcome.ok
    /\ LoadState = "loading"
    /\ BagCardinality(loads) = 1

\* C16: when the delete request for id succeeds, the displayed list loses
\* exactly the sessions with that id, the others keeping their order, and
\* in the same step a refresh is started, which is then still outstanding.
C16_DeleteRemovesAndRefreshes ==
    [][(DeleteSettleStep /\ dashEvent'.outcome.kind = "response"
          /\ dashEvent'.outcome.ok)
         => /\ recentSessions' =
                  SelectSeq(recentSessions, LAMBDA x : x.id # dashEvent'.id)
            /\ BagCardinality(loads') = BagCardinality(loads) + 1
            /\ \E l \in BagToSet(loads') :
                  /\ CopiesIn(l, loads') = CopiesIn(l, loads) + 1
                  /\ l.pc = AtAll
                  /\ \A k \in Endpoints : l.resp[k].kind = "pending"
            /\ loading'
            /\ UNCHANGED <<stats, insights>>]_vars

\* one of two displayed sessions was deleted; the other is still shown
\* while the refresh is outstanding
C16_Witness ==
    /\ dashEvent.op = "deleteSettles"
    /\ dashEvent.outcome.kind = "response" /\ dashEvent.outcome.ok
    /\ Len(recentSessions) = 1
    /\ recentSessions[1].id # dashEvent.id
    /\ loading
    /\ BagCardinality(loads) = 1

\* C17: when the delete request fails, by a non-2xx response or a network
\* error, the session list, the stats and the insights are unchanged, the
\* error flag is set and no refresh is started.
C17_DeleteFailureKeepsList ==
    [][(DeleteSettleStep /\ ~(dashEvent'.outcome.kind = "response"
                               /\ dashEvent'.outcome.ok))
         => /\ UNCHANGED <<stats, recentSessions, insights, loads, loading>>
            /\ error' = DeleteError]_vars

\* a delete was answered with a non-2xx response; its session is still shown
C17_Witness ==
    /\ dashEvent.op = "deleteSettles"
    /\ dashEvent.outcome.kind = "response" /\ ~dashEvent.outcome.ok
    /\ error = DeleteError
    /\ \E n \in 1..Len(recentSessions) : recentSessions[n].id = dashEvent.id

\* C18: the outcome of a load does not depend on the order of arrival of
\* its three responses: until Promise.all settles, an arrival changes
\* nothing on the page; a rejection ends the load whatever else is still
\* pending; bodies are read only once all three fetches have resolved,
\* and then in the order stats, sessions, insights.
C18_OrderIndependent ==
    /\ [][(FetchStep /\ ~dashEvent'.done)
            => UNCHANGED <<stats, recentSessions, insights, error, loading>>]_vars
    /\ [][(FetchStep /\ dashEvent'.outcome.kind = "networkError")
            => /\ dashEvent'.done
               /\ UNCHANGED <<stats, recentSessions, insights>>
               /\ error' = LoadError /\ ~loading']_vars
    /\ [][(FetchStep /\ dashEvent'.outcome.kind = "response"
             /\ dashEvent'.done)
            => /\ OkSet(Stepped) = {}
               /\ \A k \in Endpoints \ {dashEvent'.k} :
                     Stepped.resp[k].kind = "response"
               /\ UNCHANGED <<stats, recentSessions, insights, error>>
               /\ ~loading']_vars
    /\ [][JsonStep
            => /\ \A k \in Endpoints : Stepped.resp[k].kind = "response"
               /\ dashEvent'.k \in OkSet(Stepped)
               /\ Stepped.applied =
                     {j \in OkSet(Stepped) : j < dashEvent'.k}]_vars

\* the insights response has arrived before the stats response
C18_Witness ==
    /\ dashEvent.op = "fetchSettles"
    /\ dashEvent.k = InsightsReq
    /\ \E l \in BagToSet(loads) :
          /\ l.resp[InsightsReq].kind = "response"
          /\ l.resp[StatsReq].kind = "pending"

----------------------------------------------------------------------------
(* Claims about the HTTP client wrapper and the request URLs *)

\* C19: healthCheck returns the body of a 2xx response, or fails with the
\* one error 'Backend is not available': every non-2xx response and every
\* network failure gives that error, and there is no other outcome.
C19_HealthCheck ==
    apiEvent.op = "healthCheck" =>
        IF /\ apiEvent.outcome.kind = "response"
           /\ apiEvent.outcome.status \in 200..299
        THEN apiEvent.result =
                [kind |-> "return", value |-> apiEvent.outcome.data]
        ELSE apiEvent.result =
                [kind |-> "throw", message |-> "Backend is not available"]

\* the probe was answered with status 503 and failed with the fixed error
C19_Witness ==
    /\ apiEvent.op = "healthCheck"
    /\ apiEvent.outcome.kind = "response"
    /\ apiEvent.outcome.status = 503
    /\ apiEvent.result.kind = "throw"

\* C20: every backend request of the frontend goes to the configured base
\* URL followed by the endpoint path, the base URL being the value of the
\* environment variable when set and the localhost fallback otherwise.
C20_ConfiguredBaseUrl ==
    apiEvent.op # "load" =>
        apiEvent.request.url =
            (IF NEXT_PUBLIC_API_URL # ""
             THEN NEXT_PUBLIC_API_URL
             ELSE "http://localhost:8000/api") \o apiEvent.request.path

----------------------------------------------------------------------------
(* Claims about sessions on the chat page *)

\* the step follows a startNewChat directly
AfterNewChat == lastEvent.op = "startNewChat"

\* C21: after startNewChat, no response to a request issued before that
\* reset appends a message to the sequence or sets the held session id.
\* (Stated for the response that arrives right after the reset: every
\* request then outstanding was issued before it.)
C21_NoLateResponse ==
    [][(AfterNewChat /\ SettleStep)
         => messages' = messages /\ sessionId' = sessionId]_vars

\* C22: after startNewChat, the next accepted sendMessage call issues its
\* request with no session id, whatever preceded the reset, also when the
\* page was opened with a session_id URL parameter.  (Stated for the call
\* that follows the reset directly.)
C22_NewChatSendsNoId ==
    [][(AfterNewChat /\ SendStep /\ Accepted(lastEvent'.textToSend))
         => /\ Len(inflight') = Len(inflight) + 1
            /\ Last(inflight').session_id = NoId]_vars

\* C23: every chat send request carries as session_id the session id held
\* when it is issued, and a held id is kept by every step other than
\* startNewChat, so that once an id has been adopted every later request
\* carries it until startNewChat is called.
C23_RequestCarriesHeldId ==
    /\ [][(SendStep /\ Accepted(lastEvent'.textToSend))
            => /\ Len(inflight') = Len(inflight) + 1
               /\ Last(inflight').session_id = sessionId]_vars
    /\ [][(sessionId # NoId /\ ~NewChatStep) => sessionId' = sessionId]_vars

\* a second request carries the id the first response brought
C23_Witness ==
    /\ lastEvent.op = "sendMessage"
    /\ Len(messages) = 3
    /\ Len(inflight) = 1
    /\ inflight[1].session_id \in ServerIds
    /\ inflight[1].session_id = sessionId

\* C25: in every reachable state the message sequence alternates roles,
\* starting with a user message, so that every assistant message directly
\* follows the user message of the send it answers.
C25_RolesAlternate ==
    \A n \in 1..Len(messages) :
        messages[n].role = IF n % 2 = 1 THEN "user" ELSE "assistant"

----------------------------------------------------------------------------
(* Claims about overlapping and failing dashboard operations *)

\* C24: a load is all-or-error: whenever a load ends with the error flag
\* set, that load has changed none of stats, sessions and insights, also
\* when a 2xx body fails to parse after an earlier response of the same
\* load was applied.
C24_AllOrError ==
    [][((FetchStep \/ JsonStep) /\ dashEvent'.done /\ dashEvent'.threw)
         => /\ error' = LoadError
            /\ Stepped.applied = {}]_vars

\* C27: the loading flag is true whenever a load is outstanding, also when
\* two loads overlap.
C27_LoadingWhileOutstanding == loads # EmptyBag => loading

\* C29: when the confirmation prompt is declined, deleteSession issues no
\* request and leaves the session list, the stats, the insights, the error
\* flag and the loading flag unchanged.
C29_DeclinedDeleteIsNoOp ==
    [][(dashEvent'.op = "deleteSession" /\ ~dashEvent'.confirmed)
         => UNCHANGED <<deletes, loads, recentSessions, stats, insights,
                        error, loading>>]_vars

\* the prompt for a displayed session was declined while the error banner
\* of an earlier failure was shown
C29_Witness ==
    /\ dashEvent.op = "deleteSession"
    /\ ~dashEvent.confirmed
    /\ \E n \in 1..Len(recentSessions) : recentSessions[n].id = dashEvent.id
    /\ error # NoError
    /\ deletes = EmptyBag

----------------------------------------------------------------------------
(* Claim about the message ids *)

\* C26: in every reachable state the messages of the sequence have
\* pairwise distinct ids, for a clock that never goes backwards but may
\* return the same millisecond for consecutive reads.
C26_DistinctIds ==
    \A m, n \in 1..Len(ids) : m # n => ids[m] # ids[n]

----------------------------------------------------------------------------
(* Claim about deletes and overlapping loads *)

\* C28: once a delete of a session has succeeded and every outstanding load
\* has settled, the displayed list does not contain that session, for a
\* backend that omits it from every sessions response it produces after
\* serving the delete.
C28_DeletedStaysDeleted ==
    loads = EmptyBag =>
        \A n \in 1..Len(recentSessions) : recentSessions[n].id \notin served

====
